---------------------------- MODULE Spec2Model ----------------------------
(***************************************************************************)
(* Model of the Auto-Sign client: the App step machine (App.tsx), the     *)
(* SigningWorkspace component (page render effect, signature image        *)
(* effect, drag / resize, page navigation, finish) and embedSignature of  *)
(* the pdf service.                                                        *)
(*                                                                         *)
(* Numbers.  The JavaScript numbers of the source are modelled as exact   *)
(* rationals [n |-> numerator, d |-> denominator] in lowest terms with    *)
(* d > 0, so that the divisions of the source (aspect ratio, scale,       *)
(* centring) are computed and not assumed away.  Floating-point rounding  *)
(* is not modelled.                                                        *)
(*                                                                         *)
(* React.  A state setter's value is visible to the next event; an event  *)
(* handler and the effects its re-render triggers form one atomic action. *)
(* An async function is one action per stretch between awaits, and keeps  *)
(* the values its closure captured when the effect or handler started.    *)
(***************************************************************************)
EXTENDS Integers, Sequences, FiniteSets, TLC

(***************************************************************************)
(* Exact rational arithmetic                                               *)
(***************************************************************************)
Abs(i) == IF i < 0 THEN -i ELSE i

RECURSIVE Gcd(_, _)
Gcd(a, b) == IF b = 0 THEN a ELSE Gcd(b, a % b)

\* the rational n/d (d # 0) in lowest terms with a positive denominator
Q(n, d) ==
    LET g == Gcd(Abs(n), Abs(d))
        s == IF d < 0 THEN -1 ELSE 1
    IN  [n |-> (s * n) \div g, d |-> (s * d) \div g]

R(i) == [n |-> i, d |-> 1]

RAdd(a, b) == Q(a.n * b.d + b.n * a.d, a.d * b.d)
RSub(a, b) == Q(a.n * b.d - b.n * a.d, a.d * b.d)
RMul(a, b) == Q(a.n * b.n, a.d * b.d)
RDiv(a, b) == Q(a.n * b.d, a.d * b.n)
RLe(a, b) == a.n * b.d <= b.n * a.d
RLt(a, b) == a.n * b.d < b.n * a.d
RMin(a, b) == IF RLe(a, b) THEN a ELSE b
RMax(a, b) == IF RLe(a, b) THEN b ELSE a
\* integer part towards minus infinity (the values floored here are >= 0)
RFloor(a) == a.n \div a.d

Pos(px, py) == [x |-> px, y |-> py]
Dim(w, h) == [width |-> w, height |-> h]

(***************************************************************************)
(* The environment: the document, the page layout and the pointer          *)
(***************************************************************************)
\* number of pages of the uploaded document
NumPages == 2

\* most page renders in flight at once, most finishes in flight at once
MaxRenders == 2
MaxFinish == 1

\* most mousedowns on the overlay or its handle while a workspace is mounted
MaxGestures == 2

Pages == 1 .. NumPages

\* native size of page p in points: odd pages are US Letter, even pages a
\* small landscape slip, so that two pages of one document differ in size
NativeSize(p) ==
    IF p % 2 = 1 THEN Dim(R(612), R(792)) ELSE Dim(R(240), R(120))

\* clientWidth of the workspace container
ContainerWidth == [clientWidth |-> 1248]

\* top-left corner of the canvas in client coordinates
CanvasOrigin == [left |-> 165, top |-> 105]

\* size of the image exported by the signature pad (its canvas)
SignatureImage == Dim(R(400), R(256))

\* client coordinates <<clientX, clientY>> of the pointer in mousemove
\* events: above and left of the canvas, on page 1, beyond every canvas
PointerPoints == {<<0, 0>>, <<765, 505>>, <<1500, 1500>>}


\* points of the overlay where a mousedown may grab it, as multiples
\* <<fx, fy>> of its width and height from its top-left corner: the top-left
\* and the top-right corner (the resize handle covers the bottom-right one)
GrabPoints == {<<0, 0>>, <<1, 0>>}

(***************************************************************************)
(* State                                                                   *)
(***************************************************************************)
VARIABLES
    \* App
    step, file, signatureData, signedUrl,
    \* SignaturePad state hooks, and whether its canvas bitmap has ink
    isDrawing, hasSignature, ink,
    \* SigningWorkspace state hooks
    pdfDoc, currentPage, numPages, isRendering,
    sigPosition, sigDimensions,
    isDragging, isResizing, dragOffset, resizeStart, initialResizeDims,
    initialized, isProcessing,
    \* the canvas element of the workspace: its width and height attributes
    \* and the page painted on it (0: blank)
    canvas,
    \* asynchronous work of the mounted workspace
    loadPdf,       \* loadPdfDocument: "pending", "done" or "failed"
    img,           \* the signature Image: "loading" or "loaded"
    renders,       \* the render() calls in flight, oldest first
    renderError,   \* console.error("Render error") was reached since mount
    gestures,      \* mousedowns on the overlay or its handle since mount
    listeners,     \* the workspace's mousemove/mouseup listener pairs that
                   \* are registered on document
    \* asynchronous work that outlives the workspace
    finishes,      \* the handleFinish calls in flight, oldest first
    lastFinish     \* how the last settled handleFinish ended

appVars == <<step, file, signatureData, signedUrl>>
padVars == <<isDrawing, hasSignature, ink>>
overlayVars == <<sigPosition, sigDimensions>>
modeVars == <<isDragging, isResizing, dragOffset, resizeStart, initialResizeDims>>
pageVars == <<pdfDoc, currentPage, numPages>>
renderVars == <<isRendering, initialized, canvas, renders, renderError>>
asyncVars == <<loadPdf, img>>
envVars == <<gestures, listeners>>
finishVars == <<isProcessing, finishes, lastFinish>>
wsVars == <<overlayVars, modeVars, pageVars, renderVars, asyncVars, envVars, isProcessing>>
vars == <<appVars, padVars, overlayVars, modeVars, pageVars, renderVars, asyncVars,
          envVars, finishVars>>

\* a canvas element before anything sized it: the HTML default, 300 x 150
DefaultCanvas == [width |-> 300, height |-> 150, page |-> 0]

\* the useState initial values of SigningWorkspace and its fresh effects
WorkspaceFresh ==
    /\ pdfDoc' = FALSE
    /\ currentPage' = 1
    /\ numPages' = 0
    /\ isRendering' = TRUE
    /\ sigPosition' = Pos(R(0), R(0))
    /\ sigDimensions' = Dim(R(100), R(50))
    /\ isDragging' = FALSE
    /\ isResizing' = FALSE
    /\ dragOffset' = Pos(R(0), R(0))
    /\ resizeStart' = Pos(R(0), R(0))
    /\ initialResizeDims' = Dim(R(0), R(0))
    /\ initialized' = FALSE
    /\ isProcessing' = FALSE
    /\ canvas' = DefaultCanvas
    /\ loadPdf' = "pending"
    /\ img' = "loading"
    /\ renders' = <<>>
    /\ renderError' = FALSE
    /\ gestures' = 0
    /\ listeners' = 0

Init ==
    /\ step = "UPLOAD"
    /\ file = FALSE
    /\ signatureData = FALSE
    /\ signedUrl = FALSE
    /\ isDrawing = FALSE
    /\ hasSignature = FALSE
    /\ ink = FALSE
    /\ pdfDoc = FALSE
    /\ currentPage = 1
    /\ numPages = 0
    /\ isRendering = TRUE
    /\ sigPosition = Pos(R(0), R(0))
    /\ sigDimensions = Dim(R(100), R(50))
    /\ isDragging = FALSE
    /\ isResizing = FALSE
    /\ dragOffset = Pos(R(0), R(0))
    /\ resizeStart = Pos(R(0), R(0))
    /\ initialResizeDims = Dim(R(0), R(0))
    /\ initialized = FALSE
    /\ isProcessing = FALSE
    /\ canvas = DefaultCanvas
    /\ loadPdf = "pending"
    /\ img = "loading"
    /\ renders = <<>>
    /\ renderError = FALSE
    /\ gestures = 0
    /\ listeners = 0
    /\ finishes = <<>>
    /\ lastFinish = [outcome |-> "none", pageIndex |-> 0, draws |-> <<>>]

\* App renders <SigningWorkspace> (App.tsx, step 3)
mounted == step = "PLACE" /\ file /\ signatureData

\* every finish in flight now belongs to an unmounted workspace
Orphaned(fs) == [i \in 1 .. Len(fs) |-> [fs[i] EXCEPT !.stale = TRUE]]

RemoveAt(s, i) == [j \in 1 .. Len(s) - 1 |-> IF j < i THEN s[j] ELSE s[j + 1]]

\* a listener effect whose cleanup removes nothing
GlobalListenersNoCleanup(registered, active) ==
    registered + (IF active THEN 1 ELSE 0)

\* the listener effect re-runs: the cleanup of its previous run removes the
\* handlers that run registered, and the body registers new ones if
\* (isDragging || isResizing).  The number of registered pairs afterwards.
GlobalListeners(registered, active) ==
    LET cleaned == registered - registered
    IN  cleaned + (IF active THEN 1 ELSE 0)

\* the listener effect as part of a handler that changes one of its
\* dependencies
ListenerEffect ==
    listeners' = GlobalListeners(listeners, isDragging' \/ isResizing')

(***************************************************************************)
(* App                                                                     *)
(***************************************************************************)
\* the useState initial values of SignaturePad, and its blank canvas
PadFresh ==
    /\ isDrawing' = FALSE
    /\ hasSignature' = FALSE
    /\ ink' = FALSE

\* App renders <SignaturePad> (App.tsx, step 2)
padMounted == step = "SIGNATURE"

HandleFileSelect ==
    /\ step = "UPLOAD"
    /\ file' = TRUE
    /\ step' = "SIGNATURE"
    /\ PadFresh
    /\ UNCHANGED <<signatureData, signedUrl, wsVars, finishes, lastFinish>>

HandleSignatureSave ==
    /\ step = "SIGNATURE"
    /\ signatureData' = TRUE
    /\ step' = "PLACE"
    /\ WorkspaceFresh
    /\ UNCHANGED <<file, signedUrl, padVars, finishes, lastFinish>>

OnBack ==
    /\ mounted
    /\ step' = "SIGNATURE"
    /\ WorkspaceFresh
    /\ PadFresh
    /\ finishes' = Orphaned(finishes)
    /\ UNCHANGED <<file, signatureData, signedUrl, lastFinish>>

ResetApp ==
    /\ step \in {"SIGNATURE", "SUCCESS"}
    /\ step = "SUCCESS" => file /\ signedUrl
    /\ step' = "UPLOAD"
    /\ file' = FALSE
    /\ signatureData' = FALSE
    /\ signedUrl' = FALSE
    /\ UNCHANGED <<padVars, wsVars, finishes, lastFinish>>

HandleSigningComplete ==
    /\ signedUrl' = TRUE
    /\ step' = "SUCCESS"
    /\ UNCHANGED <<file, signatureData, padVars>>

(***************************************************************************)
(* SignaturePad                                                            *)
(***************************************************************************)
\* onMouseDown / onTouchStart of the pad canvas: beginPath and moveTo
StartDrawing ==
    /\ padMounted
    /\ isDrawing' = TRUE
    /\ UNCHANGED <<hasSignature, ink, appVars, wsVars, finishes, lastFinish>>

\* onMouseMove / onTouchMove of the pad canvas: lineTo and stroke
Draw ==
    /\ padMounted
    /\ IF ~isDrawing
         THEN UNCHANGED <<ink, hasSignature>>
         ELSE /\ ink' = TRUE
              /\ hasSignature' = TRUE
    /\ UNCHANGED <<isDrawing, appVars, wsVars, finishes, lastFinish>>

\* onMouseUp / onMouseLeave / onTouchEnd of the pad canvas
StopDrawing ==
    /\ padMounted
    /\ isDrawing' = FALSE
    /\ UNCHANGED <<hasSignature, ink, appVars, wsVars, finishes, lastFinish>>

\* a Clear button that clears the bitmap only
ClearSignatureBitmapOnly ==
    /\ padMounted
    /\ ink' = FALSE
    /\ UNCHANGED <<isDrawing, hasSignature, appVars, wsVars, finishes,
                   lastFinish>>

\* the Clear button: clearRect and setHasSignature(false)
ClearSignature ==
    /\ padMounted
    /\ ink' = FALSE
    /\ hasSignature' = FALSE
    /\ UNCHANGED <<isDrawing, appVars, wsVars, finishes, lastFinish>>

\* <Button disabled={...}>: a disabled button does not run its onClick
ButtonClickable(disabled) == ~disabled

\* a Use Signature button without the disabled prop
HandleSaveAlwaysEnabled ==
    /\ padMounted
    /\ ButtonClickable(FALSE)
    /\ HandleSignatureSave

\* the Use Signature button, disabled={!hasSignature}: handleSave calls
\* onSave, which is App's handleSignatureSave
HandleSave ==
    /\ padMounted
    /\ ButtonClickable(~hasSignature)
    /\ HandleSignatureSave


(***************************************************************************)
(* SigningWorkspace: document load, page render, signature image           *)
(***************************************************************************)
\* render(): calculatedScale for a page
CalculatedScale(p) ==
    RMin(RDiv(R(ContainerWidth.clientWidth - 48), NativeSize(p).width), Q(3, 2))

\* renderPageToCanvas: page.getViewport({scale}) of page p
Viewport(p) ==
    Dim(RMul(NativeSize(p).width, CalculatedScale(p)),
        RMul(NativeSize(p).height, CalculatedScale(p)))

\* renderPageToCanvas: the canvas after canvas.width = viewport.width and
\* canvas.height = viewport.height; the attributes are integers, and
\* assigning them clears the canvas
SizedCanvas(p) ==
    [width |-> RFloor(Viewport(p).width),
     height |-> RFloor(Viewport(p).height),
     page |-> 0]

\* the render effect (deps [pdfDoc, currentPage]) for page p: the synchronous
\* part of render() up to its first await.  The closure keeps the
\* initialized and sigDimensions of the React render that ran the effect.
StartRender(p) ==
    /\ isRendering' = TRUE
    /\ renders' = Append(renders,
                     [page |-> p, pc |-> "getPage",
                      initialized |-> initialized,
                      sigDimensions |-> sigDimensions])

\* loadPdfDocument resolves: setPdfDoc, setNumPages, and the render effect
LoadPdfDone ==
    /\ mounted
    /\ loadPdf = "pending"
    /\ loadPdf' = "done"
    /\ pdfDoc' = TRUE
    /\ numPages' = NumPages
    /\ StartRender(currentPage)
    /\ UNCHANGED <<gestures, listeners, appVars, padVars, overlayVars, modeVars,
                   currentPage, initialized,
                   canvas, renderError, img, finishVars>>

\* loadPdfDocument throws: console.error only
LoadPdfFail ==
    /\ mounted
    /\ loadPdf = "pending"
    /\ loadPdf' = "failed"
    /\ UNCHANGED <<gestures, listeners, appVars, padVars, overlayVars, modeVars,
                   pageVars, renderVars, img,
                   finishVars>>

\* img.onload of the signature dimensions effect
ImgOnLoad ==
    /\ mounted
    /\ img = "loading"
    /\ img' = "loaded"
    /\ LET aspectRatio == RDiv(SignatureImage.width, SignatureImage.height)
           baseWidth == R(100)
       IN  sigDimensions' = Dim(baseWidth, RDiv(baseWidth, aspectRatio))
    /\ UNCHANGED <<gestures, appVars, padVars, sigPosition, modeVars, pageVars, renderVars,
                   loadPdf, finishVars>>
    /\ ListenerEffect

\* render i got its page: renderPageToCanvas sizes the canvas and starts
\* page.render
RenderSized(i) ==
    /\ mounted
    /\ i \in 1 .. Len(renders)
    /\ renders[i].pc = "getPage"
    /\ canvas' = SizedCanvas(renders[i].page)
    /\ renders' = [renders EXCEPT ![i].pc = "painting"]
    /\ UNCHANGED <<gestures, listeners, appVars, padVars, overlayVars, modeVars,
                   pageVars, isRendering,
                   initialized, renderError, asyncVars, finishVars>>

\* the position render() gives the signature on first load of the canvas
Centered(cv, dims) ==
    Pos(RSub(RDiv(R(cv.width), R(2)), RDiv(dims.width, R(2))),
        RSub(RDiv(R(cv.height), R(3)), RDiv(dims.height, R(2))))

\* a render() that centers the signature on every page it paints
RenderDoneAlwaysCenters(i) ==
    /\ mounted
    /\ i \in 1 .. Len(renders)
    /\ renders[i].pc = "painting"
    /\ canvas' = [canvas EXCEPT !.page = renders[i].page]
    /\ sigPosition' = Centered(canvas, renders[i].sigDimensions)
    /\ initialized' = TRUE
    /\ isRendering' = FALSE
    /\ renders' = RemoveAt(renders, i)
    /\ UNCHANGED <<gestures, appVars, padVars, sigDimensions, modeVars,
                   pageVars, renderError, asyncVars, finishVars>>
    /\ ListenerEffect

\* page.render of render i resolves: the page is painted, the signature is
\* centered if the closure's initialized is false, and finally
\* setIsRendering(false)
RenderDone(i) ==
    /\ mounted
    /\ i \in 1 .. Len(renders)
    /\ renders[i].pc = "painting"
    /\ canvas' = [canvas EXCEPT !.page = renders[i].page]
    /\ IF ~renders[i].initialized
         THEN /\ sigPosition' = Centered(canvas, renders[i].sigDimensions)
              /\ initialized' = TRUE
         ELSE UNCHANGED <<sigPosition, initialized>>
    /\ isRendering' = FALSE
    /\ renders' = RemoveAt(renders, i)
    /\ UNCHANGED <<gestures, appVars, padVars, sigDimensions, modeVars, pageVars, renderError,
                   asyncVars, finishVars>>
    /\ IF ~renders[i].initialized
         THEN ListenerEffect
         ELSE UNCHANGED listeners

\* getPage or page.render of render i rejects: the catch block, and finally
\* setIsRendering(false)
RenderFail(i) ==
    /\ mounted
    /\ i \in 1 .. Len(renders)
    /\ renderError' = TRUE
    /\ isRendering' = FALSE
    /\ renders' = RemoveAt(renders, i)
    /\ UNCHANGED <<gestures, listeners, appVars, padVars, overlayVars, modeVars,
                   pageVars, initialized,
                   canvas, asyncVars, finishVars>>

(***************************************************************************)
(* SigningWorkspace: page navigation                                       *)
(***************************************************************************)
\* the previous-page button: disabled={currentPage <= 1}
PrevPage ==
    /\ mounted
    /\ Len(renders) < MaxRenders
    /\ IF currentPage <= 1
         THEN UNCHANGED <<currentPage, isRendering, renders>>
         ELSE /\ currentPage' = currentPage - 1
              /\ StartRender(currentPage - 1)
    /\ UNCHANGED <<gestures, listeners, appVars, padVars, overlayVars, modeVars, pdfDoc,
                   numPages,
                   initialized, canvas, renderError, asyncVars, finishVars>>

\* a next-page button that is never disabled
NextPageAlwaysEnabled ==
    /\ mounted
    /\ Len(renders) < MaxRenders
    /\ currentPage' = currentPage + 1
    /\ StartRender(currentPage + 1)
    /\ UNCHANGED <<gestures, listeners, appVars, padVars, overlayVars, modeVars, pdfDoc,
                   numPages,
                   initialized, canvas, renderError, asyncVars, finishVars>>

\* the next-page button: disabled={currentPage >= numPages}
NextPage ==
    /\ mounted
    /\ Len(renders) < MaxRenders
    /\ IF currentPage >= numPages
         THEN UNCHANGED <<currentPage, isRendering, renders>>
         ELSE /\ currentPage' = currentPage + 1
              /\ StartRender(currentPage + 1)
    /\ UNCHANGED <<gestures, listeners, appVars, padVars, overlayVars, modeVars, pdfDoc,
                   numPages,
                   initialized, canvas, renderError, asyncVars, finishVars>>


(***************************************************************************)
(* SigningWorkspace: drag and resize                                       *)
(***************************************************************************)
\* canvasRef.current.getBoundingClientRect(): the canvas has no CSS size, so
\* its box is its width and height attributes
CanvasRect ==
    [left |-> R(CanvasOrigin.left), top |-> R(CanvasOrigin.top),
     width |-> R(canvas.width), height |-> R(canvas.height)]

\* getBoundingClientRect() of the overlay element, absolutely positioned at
\* sigPosition in the canvas wrapper
OverlayRect ==
    [left |-> RAdd(CanvasRect.left, sigPosition.x),
     top |-> RAdd(CanvasRect.top, sigPosition.y),
     right |-> RAdd(RAdd(CanvasRect.left, sigPosition.x), sigDimensions.width),
     bottom |-> RAdd(RAdd(CanvasRect.top, sigPosition.y), sigDimensions.height)]

\* the overlay element exists: {!isRendering && (...)}
OverlayShown == mounted /\ ~isRendering

\* handleGlobalMove and handleGlobalUp are registered on document
ListenersOn == mounted /\ listeners > 0

\* onMouseDown of the overlay, the pointer at grab point g of the overlay box
StartDrag(g) ==
    /\ OverlayShown
    /\ gestures < MaxGestures
    /\ gestures' = gestures + 1
    /\ IF isResizing
         THEN UNCHANGED <<dragOffset, isDragging, listeners>>
         ELSE LET rect == OverlayRect
                  e == [clientX |-> RAdd(rect.left,
                                     RMul(R(g[1]), sigDimensions.width)),
                        clientY |-> RAdd(rect.top,
                                     RMul(R(g[2]), sigDimensions.height))]
              IN  /\ dragOffset' = Pos(RSub(e.clientX, rect.left),
                                       RSub(e.clientY, rect.top))
                  /\ isDragging' = TRUE
                  /\ listeners' = GlobalListeners(listeners, TRUE)
    /\ UNCHANGED <<appVars, padVars, overlayVars, isResizing, resizeStart,
                   initialResizeDims, pageVars, renderVars, asyncVars,
                   finishVars>>

\* onMouseDown of the resize handle, which sits on the overlay's bottom-right
\* corner; stopPropagation keeps the event from the overlay's own handler
StartResize ==
    /\ OverlayShown
    /\ gestures < MaxGestures
    /\ LET e == [clientX |-> OverlayRect.right, clientY |-> OverlayRect.bottom]
       IN  /\ isResizing' = TRUE
           /\ listeners' = GlobalListeners(listeners, TRUE)
           /\ resizeStart' = Pos(e.clientX, e.clientY)
           /\ initialResizeDims' = sigDimensions
    /\ gestures' = gestures + 1
    /\ UNCHANGED <<appVars, padVars, overlayVars, isDragging, dragOffset, pageVars,
                   renderVars, asyncVars, finishVars>>

\* handleGlobalMove, drag branch: the new sigPosition
DragPosition(e) ==
    LET canvasRect == CanvasRect
        relativeX == RSub(RSub(e.clientX, canvasRect.left), dragOffset.x)
        relativeY == RSub(RSub(e.clientY, canvasRect.top), dragOffset.y)
        maxX == RSub(canvasRect.width, sigDimensions.width)
        maxY == RSub(canvasRect.height, sigDimensions.height)
    IN  Pos(RMin(RMax(R(0), relativeX), maxX),
            RMin(RMax(R(0), relativeY), maxY))

\* handleGlobalMove, resize branch: newWidth and newHeight
ResizeCandidate(e) ==
    LET canvasRect == CanvasRect
        deltaX == RSub(e.clientX, resizeStart.x)
        aspectRatio == RDiv(initialResizeDims.width, initialResizeDims.height)
        newWidth == RMax(R(30), RMin(RAdd(initialResizeDims.width, deltaX),
                                     RSub(canvasRect.width, sigPosition.x)))
        newHeight == RDiv(newWidth, aspectRatio)
    IN  Dim(newWidth, newHeight)

\* handleGlobalMove, resize branch: the new sigDimensions (the old ones when
\* the vertical bounds check drops the update)
ResizeDimensions(e) ==
    IF RLe(RAdd(sigPosition.y, ResizeCandidate(e).height), CanvasRect.height)
      THEN ResizeCandidate(e)
      ELSE sigDimensions

\* the document mousemove listener
HandleGlobalMove(cx, cy) ==
    /\ ListenersOn
    /\ LET e == [clientX |-> R(cx), clientY |-> R(cy)]
       IN  IF isDragging
             THEN /\ sigPosition' = DragPosition(e)
                  /\ UNCHANGED sigDimensions
             ELSE IF isResizing
                    THEN /\ sigDimensions' = ResizeDimensions(e)
                         /\ UNCHANGED sigPosition
                    ELSE UNCHANGED <<sigPosition, sigDimensions>>
    /\ UNCHANGED <<gestures, appVars, padVars, modeVars, pageVars, renderVars, asyncVars,
                   finishVars>>
    /\ ListenerEffect

\* a mouseup listener that ends a drag only
HandleGlobalUpDragOnly ==
    /\ ListenersOn
    /\ isDragging' = FALSE
    /\ listeners' = GlobalListeners(listeners, isResizing)
    /\ UNCHANGED <<gestures, appVars, padVars, overlayVars, isResizing, dragOffset,
                   resizeStart, initialResizeDims, pageVars, renderVars,
                   asyncVars, finishVars>>

\* the document mouseup listener
HandleGlobalUp ==
    /\ ListenersOn
    /\ isDragging' = FALSE
    /\ isResizing' = FALSE
    /\ listeners' = GlobalListeners(listeners, FALSE)
    /\ UNCHANGED <<gestures, appVars, padVars, overlayVars, dragOffset, resizeStart,
                   initialResizeDims, pageVars, renderVars, asyncVars,
                   finishVars>>

(***************************************************************************)
(* Finish: handleFinish and embedSignature                                 *)
(***************************************************************************)
\* an embedSignature with one scale factor for both axes
ToDocumentSpaceUniformScale(position, pdfPageDimensions, signatureDimensions, actual) ==
    LET scaleX == RDiv(actual.width, pdfPageDimensions.width)
        scaleY == scaleX
        sigWidth == RMul(signatureDimensions.width, scaleX)
        sigHeight == RMul(signatureDimensions.height, scaleY)
        pdfX == RMul(position.x, scaleX)
        pdfY == RSub(actual.height, RAdd(RMul(position.y, scaleY), sigHeight))
    IN  [x |-> pdfX, y |-> pdfY, width |-> sigWidth, height |-> sigHeight]

\* an embedSignature that does not scale the overlay's size
ToDocumentSpaceUnscaledSize(position, pdfPageDimensions, signatureDimensions, actual) ==
    LET scaleX == RDiv(actual.width, pdfPageDimensions.width)
        scaleY == RDiv(actual.height, pdfPageDimensions.height)
        sigWidth == signatureDimensions.width
        sigHeight == signatureDimensions.height
        pdfX == RMul(position.x, scaleX)
        pdfY == RSub(actual.height, RAdd(RMul(position.y, scaleY), sigHeight))
    IN  [x |-> pdfX, y |-> pdfY, width |-> sigWidth, height |-> sigHeight]

\* an embedSignature that flips the overlay's top edge, not its bottom edge
ToDocumentSpaceTopEdge(position, pdfPageDimensions, signatureDimensions, actual) ==
    LET scaleX == RDiv(actual.width, pdfPageDimensions.width)
        scaleY == RDiv(actual.height, pdfPageDimensions.height)
        sigWidth == RMul(signatureDimensions.width, scaleX)
        sigHeight == RMul(signatureDimensions.height, scaleY)
        pdfX == RMul(position.x, scaleX)
        pdfY == RSub(actual.height, RMul(position.y, scaleY))
    IN  [x |-> pdfX, y |-> pdfY, width |-> sigWidth, height |-> sigHeight]

\* embedSignature, from page.getSize() to the options of page.drawImage: the
\* rectangle in PDF points, origin bottom-left, of an overlay at position with
\* size signatureDimensions on a page rendered at pdfPageDimensions whose
\* size in points is actual
ToDocumentSpace(position, pdfPageDimensions, signatureDimensions, actual) ==
    LET scaleX == RDiv(actual.width, pdfPageDimensions.width)
        scaleY == RDiv(actual.height, pdfPageDimensions.height)
        sigWidth == RMul(signatureDimensions.width, scaleX)
        sigHeight == RMul(signatureDimensions.height, scaleY)
        pdfX == RMul(position.x, scaleX)
        pdfY == RSub(actual.height, RAdd(RMul(position.y, scaleY), sigHeight))
    IN  [x |-> pdfX, y |-> pdfY, width |-> sigWidth, height |-> sigHeight]

\* the Finish button: handleFinish up to its await.  The arguments of
\* embedSignature are evaluated at the call.
HandleFinish ==
    /\ mounted
    /\ Len(finishes) < MaxFinish
    /\ isProcessing' = TRUE
    /\ finishes' = Append(finishes,
                     [pageIndex |-> currentPage - 1,
                      position |-> sigPosition,
                      pdfPageDimensions |-> Dim(R(canvas.width), R(canvas.height)),
                      signatureDimensions |-> sigDimensions,
                      pc |-> "load", draws |-> <<>>, options |-> <<>>,
                      stale |-> FALSE])
    /\ UNCHANGED <<gestures, listeners, appVars, padVars, overlayVars, modeVars,
                   pageVars, renderVars,
                   asyncVars, lastFinish>>

\* an embedSignature that draws on the page shown now, not on the page index
\* it was called with
EmbedDrawOnShownPage(i) ==
    /\ i \in 1 .. Len(finishes)
    /\ finishes[i].pc = "load"
    /\ finishes[i].pageIndex + 1 \in Pages
    /\ finishes' = [finishes EXCEPT
                      ![i].pc = "drawn",
                      ![i].draws = Append(@, currentPage - 1),
                      ![i].options = Append(@,
                          ToDocumentSpace(finishes[i].position,
                                          finishes[i].pdfPageDimensions,
                                          finishes[i].signatureDimensions,
                                          NativeSize(currentPage)))]
    /\ UNCHANGED <<appVars, padVars, wsVars, lastFinish>>

\* embedSignature of finish i reaches page.drawImage: the document loaded,
\* the PNG embedded and pages[pageIndex] is a page of the document
EmbedDraw(i) ==
    /\ i \in 1 .. Len(finishes)
    /\ finishes[i].pc = "load"
    /\ finishes[i].pageIndex + 1 \in Pages
    /\ finishes' = [finishes EXCEPT
                      ![i].pc = "drawn",
                      ![i].draws = Append(@, finishes[i].pageIndex),
                      ![i].options = Append(@,
                          ToDocumentSpace(finishes[i].position,
                                          finishes[i].pdfPageDimensions,
                                          finishes[i].signatureDimensions,
                                          NativeSize(finishes[i].pageIndex + 1)))]
    /\ UNCHANGED <<appVars, padVars, wsVars, lastFinish>>

\* a handleFinish without its finally block
FinishFailedNoFinally(i) ==
    /\ lastFinish' = [outcome |-> "failed",
                      pageIndex |-> finishes[i].pageIndex,
                      draws |-> finishes[i].draws]
    /\ finishes' = RemoveAt(finishes, i)
    /\ UNCHANGED <<gestures, listeners, appVars, padVars, overlayVars, modeVars,
                   pageVars, renderVars,
                   asyncVars, isProcessing>>

\* the catch and finally blocks of handleFinish, for finish i: alert, and
\* setIsProcessing(false) if its workspace is still the mounted one
FinishFailed(i) ==
    /\ lastFinish' = [outcome |-> "failed",
                      pageIndex |-> finishes[i].pageIndex,
                      draws |-> finishes[i].draws]
    /\ finishes' = RemoveAt(finishes, i)
    /\ isProcessing' = IF finishes[i].stale THEN isProcessing ELSE FALSE
    /\ UNCHANGED <<gestures, listeners, appVars, padVars, overlayVars, modeVars,
                   pageVars, renderVars,
                   asyncVars>>

\* embedSignature of finish i throws (arrayBuffer, PDFDocument.load,
\* embedPng, a missing page, or save after the draw)
EmbedThrow(i) ==
    /\ i \in 1 .. Len(finishes)
    /\ FinishFailed(i)

\* pdfDoc.save() of finish i resolves: onComplete(url), which is App's
\* handleSigningComplete and unmounts the workspace
EmbedSaved(i) ==
    /\ i \in 1 .. Len(finishes)
    /\ finishes[i].pc = "drawn"
    /\ HandleSigningComplete
    /\ lastFinish' = [outcome |-> "completed",
                      pageIndex |-> finishes[i].pageIndex,
                      draws |-> finishes[i].draws]
    /\ finishes' = Orphaned(RemoveAt(finishes, i))
    /\ WorkspaceFresh

(***************************************************************************)
(* Specification                                                           *)
(***************************************************************************)
Next ==
    \/ HandleFileSelect
    \/ StartDrawing
    \/ Draw
    \/ StopDrawing
    \/ ClearSignature
    \/ HandleSave
    \/ OnBack
    \/ ResetApp
    \/ LoadPdfDone
    \/ LoadPdfFail
    \/ ImgOnLoad
    \/ \E i \in 1 .. MaxRenders : RenderSized(i)
    \/ \E i \in 1 .. MaxRenders : RenderDone(i)
    \/ \E i \in 1 .. MaxRenders : RenderFail(i)
    \/ PrevPage
    \/ NextPage
    \/ \E g \in GrabPoints : StartDrag(g)
    \/ StartResize
    \/ \E pt \in PointerPoints : HandleGlobalMove(pt[1], pt[2])
    \/ HandleGlobalUp
    \/ HandleFinish
    \/ \E i \in 1 .. MaxFinish : EmbedDraw(i)
    \/ \E i \in 1 .. MaxFinish : EmbedThrow(i)
    \/ \E i \in 1 .. MaxFinish : EmbedSaved(i)

Spec == Init /\ [][Next]_vars


\* The specifications below restrict the environment of Spec, never the
\* program: each is Spec with some user or collaborator events left out.

\* a mouse user signs with one stroke and has released the button before
\* clicking Use Signature
CalmHandleSave == ~isDrawing /\ HandleSave

\* a mouse user who waits for the page: the page buttons are clicked only
\* between gestures (the mouse button is up) and when no render is in flight
CalmPrevPage == ~isDragging /\ ~isResizing /\ renders = <<>> /\ PrevPage
CalmNextPage == ~isDragging /\ ~isResizing /\ renders = <<>> /\ NextPage

\* The placement workspace of one signing session: document load, signature
\* image, page renders one at a time, page navigation between gestures, and
\* pointer gestures.  No collaborator fails, and the user neither leaves nor
\* finishes.
NextPlace ==
    \/ HandleFileSelect
    \/ StartDrawing
    \/ Draw
    \/ StopDrawing
    \/ CalmHandleSave
    \/ LoadPdfDone
    \/ ImgOnLoad
    \/ \E i \in 1 .. MaxRenders : RenderSized(i)
    \/ \E i \in 1 .. MaxRenders : RenderDone(i)
    \/ CalmPrevPage
    \/ CalmNextPage
    \/ \E g \in GrabPoints : StartDrag(g)
    \/ StartResize
    \/ \E pt \in PointerPoints : HandleGlobalMove(pt[1], pt[2])
    \/ HandleGlobalUp

SpecPlace == Init /\ [][NextPlace]_vars

\* Page navigation and page renders that overlap: Back and Cancel, document
\* load (which may fail), signature image, page navigation at any time, and
\* renders that complete in any order or fail.  The overlay is not touched,
\* and the user does not finish.
NextNav ==
    \/ HandleFileSelect
    \/ StartDrawing
    \/ Draw
    \/ StopDrawing
    \/ CalmHandleSave
    \/ OnBack
    \/ ResetApp
    \/ LoadPdfDone
    \/ LoadPdfFail
    \/ ImgOnLoad
    \/ \E i \in 1 .. MaxRenders : RenderSized(i)
    \/ \E i \in 1 .. MaxRenders : RenderDone(i)
    \/ \E i \in 1 .. MaxRenders : RenderFail(i)
    \/ PrevPage
    \/ NextPage

SpecNav == Init /\ [][NextNav]_vars

\* Page renders that overlap, with pointer-downs and pointer-ups on the
\* overlay: page navigation at any time and renders that complete in any
\* order or fail.  The pointer does not move, and the user neither leaves nor
\* finishes.
NextRender ==
    \/ HandleFileSelect
    \/ StartDrawing
    \/ Draw
    \/ StopDrawing
    \/ CalmHandleSave
    \/ LoadPdfDone
    \/ ImgOnLoad
    \/ \E i \in 1 .. MaxRenders : RenderSized(i)
    \/ \E i \in 1 .. MaxRenders : RenderDone(i)
    \/ \E i \in 1 .. MaxRenders : RenderFail(i)
    \/ PrevPage
    \/ NextPage
    \/ \E g \in GrabPoints : StartDrag(g)
    \/ StartResize
    \/ HandleGlobalUp

SpecRender == Init /\ [][NextRender]_vars

\* The signing session around finish: every App step, document load (which
\* may fail), signature image, page renders one at a time, page navigation
\* and finish with every outcome of embedSignature.  The overlay is not
\* touched.
NextFinish ==
    \/ HandleFileSelect
    \/ StartDrawing
    \/ Draw
    \/ StopDrawing
    \/ CalmHandleSave
    \/ OnBack
    \/ ResetApp
    \/ LoadPdfDone
    \/ LoadPdfFail
    \/ ImgOnLoad
    \/ \E i \in 1 .. MaxRenders : RenderSized(i)
    \/ \E i \in 1 .. MaxRenders : RenderDone(i)
    \/ CalmPrevPage
    \/ CalmNextPage
    \/ HandleFinish
    \/ \E i \in 1 .. MaxFinish : EmbedDraw(i)
    \/ \E i \in 1 .. MaxFinish : EmbedThrow(i)
    \/ \E i \in 1 .. MaxFinish : EmbedSaved(i)

SpecFinish == Init /\ [][NextFinish]_vars

\* SpecPlace with a user who may leave the workspace with Back at any time,
\* also in the middle of a gesture
NextLeave ==
    \/ NextPlace
    \/ OnBack

SpecLeave == Init /\ [][NextLeave]_vars

\* The signature pad with every gesture on it (strokes, Clear, Use Signature
\* also in the middle of a stroke, Cancel), and the navigation of SpecNav in
\* the workspace that follows.
NextPad ==
    \/ NextNav
    \/ ClearSignature
    \/ HandleSave

SpecPad == Init /\ [][NextPad]_vars

\* embedSignature as a function of its arguments.  It is an exported function
\* and the types Position and Dimensions are plain numbers, so the arguments
\* of the call in flight are drawn from the sets below; the workspace is one
\* that has rendered page 1, centered the overlay and called handleFinish.
MapPositions ==
    {Pos(R(0), R(0)), Pos(R(130), R(35)), Pos(R(409), R(371)),
     Pos(Q(149, 2), R(12))}

MapSignatureDimensions ==
    {Dim(R(100), R(64)), Dim(R(30), R(15)), Dim(R(509), Q(509, 2)),
     Dim(R(0), R(50))}

MapPageDimensions ==
    {Dim(R(SizedCanvas(p).width), R(SizedCanvas(p).height)) : p \in Pages}

InitMap ==
    /\ step = "PLACE"
    /\ file = TRUE
    /\ signatureData = TRUE
    /\ signedUrl = FALSE
    /\ isDrawing = FALSE
    /\ hasSignature = TRUE
    /\ ink = TRUE
    /\ pdfDoc = TRUE
    /\ currentPage = 1
    /\ numPages = NumPages
    /\ isRendering = FALSE
    /\ sigDimensions = Dim(R(100), R(64))
    /\ canvas = [SizedCanvas(1) EXCEPT !.page = 1]
    /\ sigPosition = Centered(canvas, sigDimensions)
    /\ isDragging = FALSE
    /\ isResizing = FALSE
    /\ dragOffset = Pos(R(0), R(0))
    /\ resizeStart = Pos(R(0), R(0))
    /\ initialResizeDims = Dim(R(0), R(0))
    /\ initialized = TRUE
    /\ isProcessing = TRUE
    /\ loadPdf = "done"
    /\ img = "loaded"
    /\ renders = <<>>
    /\ renderError = FALSE
    /\ gestures = 0
    /\ listeners = 0
    /\ \E pageIndex \in 0 .. NumPages - 1, position \in MapPositions,
          pdfPageDimensions \in MapPageDimensions,
          signatureDimensions \in MapSignatureDimensions :
          finishes = <<[pageIndex |-> pageIndex,
                        position |-> position,
                        pdfPageDimensions |-> pdfPageDimensions,
                        signatureDimensions |-> signatureDimensions,
                        pc |-> "load", draws |-> <<>>, options |-> <<>>,
                        stale |-> FALSE]>>
    /\ lastFinish = [outcome |-> "none", pageIndex |-> 0, draws |-> <<>>]

NextMap ==
    \/ HandleFinish
    \/ \E i \in 1 .. MaxFinish : EmbedDraw(i)
    \/ \E i \in 1 .. MaxFinish : EmbedThrow(i)
    \/ \E i \in 1 .. MaxFinish : EmbedSaved(i)

SpecMap == InitMap /\ [][NextMap]_vars


(***************************************************************************)
(* Claims                                                                  *)
(***************************************************************************)
Idle == ~isDragging /\ ~isResizing

\* the overlay box lies within the canvas, is at least 30 wide and has a
\* positive height
BoxInViewport ==
    /\ RLe(R(0), sigPosition.x)
    /\ RLe(R(0), sigPosition.y)
    /\ RLe(RAdd(sigPosition.x, sigDimensions.width), R(canvas.width))
    /\ RLe(RAdd(sigPosition.y, sigDimensions.height), R(canvas.height))
    /\ RLe(R(30), sigDimensions.width)
    /\ RLt(R(0), sigDimensions.height)

\* a pointer-move that changed the overlay box (an applied update)
AppliedUpdate ==
    /\ \E pt \in PointerPoints : HandleGlobalMove(pt[1], pt[2])
    /\ <<sigPosition, sigDimensions>>' # <<sigPosition, sigDimensions>>

\* C1: every applied drag or resize update leaves the overlay box inside the
\* current page canvas (0 <= x, 0 <= y, x + width <= viewportWidth,
\* y + height <= viewportHeight) with width >= 30 and height > 0.
C1_AppliedUpdateInViewport == [][AppliedUpdate => BoxInViewport']_vars

\* C2: the workspace is never Dragging and Resizing at the same time.
C2_OneModeAtATime == ~(isDragging /\ isResizing)

\* C6: once the signature image has loaded, the overlay's width / height is
\* the aspect ratio of the signature image, whatever resizes were made.
C6_AspectRatioOfSignature ==
    (mounted /\ img = "loaded") =>
        RDiv(sigDimensions.width, sigDimensions.height)
            = RDiv(SignatureImage.width, SignatureImage.height)


\* C3: once a page render has centered the overlay (initialized is set), no
\* later page-render completion sets the overlay position again.
C3_CenteredOnce ==
    [][\A i \in 1 .. MaxRenders :
          (initialized /\ RenderDone(i)) => sigPosition' = sigPosition]_vars

\* C4: once every render has completed (none failed), the canvas shows the
\* current page and has the viewport dimensions of the current page,
\* whatever the order in which the renders completed.
C4_CanvasIsCurrentPage ==
    (mounted /\ pdfDoc /\ renders = <<>> /\ ~renderError) =>
        /\ canvas.page = currentPage
        /\ canvas.width = SizedCanvas(currentPage).width
        /\ canvas.height = SizedCanvas(currentPage).height

\* C5: while a page render is in flight the overlay cannot leave Idle: no
\* drag start and no resize start is accepted.
C5_NoGestureWhileRendering ==
    [][(mounted /\ renders # <<>> /\ Idle) => Idle']_vars


\* C7: once the document is loaded 1 <= currentPage <= numPages, and a
\* previous-page request at page 1 and a next-page request at the last page
\* leave currentPage unchanged.
C7_PageInRange ==
    /\ [](pdfDoc => (1 <= currentPage /\ currentPage <= numPages))
    /\ [][(PrevPage /\ currentPage = 1) => currentPage' = currentPage]_vars
    /\ [][(NextPage /\ pdfDoc /\ currentPage = numPages)
             => currentPage' = currentPage]_vars

\* C7 witness: the user went forward to the last page of a loaded document
C7_AtLastPage ==
    mounted /\ pdfDoc /\ numPages >= 2 /\ currentPage = numPages /\ renders = <<>>

\* C8: when embedSignature fails, the failure is signalled and the step
\* leaves the App step, file, signature, signed URL, overlay position and
\* size and current page unchanged; for a finish of the mounted workspace the
\* App step is PLACE and isProcessing returns to false.
C8_FailedFinishLeavesState ==
    [][\A i \in 1 .. MaxFinish :
          EmbedThrow(i) =>
              /\ lastFinish'.outcome = "failed"
              /\ UNCHANGED <<step, file, signatureData, signedUrl,
                             sigPosition, sigDimensions, currentPage>>
              /\ ~finishes[i].stale =>
                     (step' = "PLACE" /\ ~isProcessing')]_vars

\* C8 witness: a finish failed in the workspace that is still mounted, with
\* its overlay placed, and can be retried
C8_FailedAndRetryable ==
    /\ mounted /\ initialized
    /\ lastFinish.outcome = "failed"
    /\ finishes = <<>>
    /\ ~isProcessing

\* C9: the viewport dimensions that finish reads are those of the rendered
\* page whose index currentPage - 1 it passes on, once a page has been shown.
C9_FinishViewportOfCurrentPage ==
    [][(HandleFinish /\ canvas.page # 0) =>
          finishes'[Len(finishes')].pdfPageDimensions
              = Dim(R(SizedCanvas(currentPage).width),
                    R(SizedCanvas(currentPage).height))]_vars

\* C10: a finish draws the image exactly once, on its target page index: no
\* draw before embedSignature reaches drawImage, one draw on pageIndex from
\* then on, and a failed finish never has more than that one draw.
C10_OneDrawOnTargetPage ==
    /\ \A i \in 1 .. Len(finishes) :
          /\ finishes[i].pc = "load" => finishes[i].draws = <<>>
          /\ finishes[i].pc = "drawn" =>
                 finishes[i].draws = <<finishes[i].pageIndex>>
    /\ lastFinish.outcome = "completed" =>
           lastFinish.draws = <<lastFinish.pageIndex>>
    /\ lastFinish.outcome = "failed" =>
           lastFinish.draws \in {<<>>, <<lastFinish.pageIndex>>}

\* C10 witness: a finish on the second page completed
C10_CompletedOnSecondPage ==
    /\ lastFinish.outcome = "completed"
    /\ lastFinish.pageIndex = 1
    /\ lastFinish.draws = <<1>>


PositiveDimensions(f) ==
    /\ RLt(R(0), f.signatureDimensions.width)
    /\ RLt(R(0), f.signatureDimensions.height)
    /\ RLt(R(0), f.pdfPageDimensions.width)
    /\ RLt(R(0), f.pdfPageDimensions.height)
    /\ RLt(R(0), NativeSize(f.pageIndex + 1).width)
    /\ RLt(R(0), NativeSize(f.pageIndex + 1).height)

\* C11: for inputs with positive dimensions the rectangle handed to
\* drawImage has docWidth = overlay.width * native.width / rendered.width,
\* docHeight = overlay.height * native.height / rendered.height,
\* docX = overlay.x * native.width / rendered.width and
\* docY = native.height - (overlay.y * native.height / rendered.height
\*                         + docHeight).
C11_DocumentSpaceFormulas ==
    \A i \in 1 .. Len(finishes) :
        (finishes[i].pc = "drawn" /\ PositiveDimensions(finishes[i])) =>
            LET f == finishes[i]
                native == NativeSize(f.pageIndex + 1)
                rendered == f.pdfPageDimensions
                docWidth == Q(f.signatureDimensions.width.n * native.width.n
                                  * rendered.width.d,
                              f.signatureDimensions.width.d * native.width.d
                                  * rendered.width.n)
                docHeight == Q(f.signatureDimensions.height.n * native.height.n
                                   * rendered.height.d,
                               f.signatureDimensions.height.d * native.height.d
                                   * rendered.height.n)
                docX == Q(f.position.x.n * native.width.n * rendered.width.d,
                          f.position.x.d * native.width.d * rendered.width.n)
                top == Q(f.position.y.n * native.height.n * rendered.height.d,
                         f.position.y.d * native.height.d * rendered.height.n)
                docY == RSub(native.height, RAdd(top, docHeight))
            IN  f.options = <<[x |-> docX, y |-> docY,
                               width |-> docWidth, height |-> docHeight]>>

\* C11 witness: an overlay away from the origin was drawn on page 1 from a
\* rendering whose proportions are not the page's, so the two scale factors
\* differ
C11_DrawnWithTwoScales ==
    \E i \in 1 .. Len(finishes) :
        /\ finishes[i].pc = "drawn"
        /\ PositiveDimensions(finishes[i])
        /\ finishes[i].pageIndex = 0
        /\ finishes[i].pdfPageDimensions = Dim(R(360), R(180))
        /\ finishes[i].position = Pos(R(130), R(35))


Twice(d) == [k \in DOMAIN d |-> RMul(R(2), d[k])]
Half(d) == [k \in DOMAIN d |-> RDiv(d[k], R(2))]

\* C12 as stated: doubling the rendered page width and height and halving
\* the overlay position and size yields the rectangle that was drawn.
C12_DoubledPageHalvedOverlay ==
    \A i \in 1 .. Len(finishes) :
        (finishes[i].pc = "drawn" /\ PositiveDimensions(finishes[i])) =>
            ToDocumentSpace(Half(finishes[i].position),
                            Twice(finishes[i].pdfPageDimensions),
                            Half(finishes[i].signatureDimensions),
                            NativeSize(finishes[i].pageIndex + 1))
                = finishes[i].options[1]

\* C12 amended: doubling the rendered page width and height and doubling the
\* overlay position and size yields the rectangle that was drawn.
C12_DoubledPageDoubledOverlay ==
    \A i \in 1 .. Len(finishes) :
        (finishes[i].pc = "drawn" /\ PositiveDimensions(finishes[i])) =>
            ToDocumentSpace(Twice(finishes[i].position),
                            Twice(finishes[i].pdfPageDimensions),
                            Twice(finishes[i].signatureDimensions),
                            NativeSize(finishes[i].pageIndex + 1))
                = finishes[i].options[1]

\* C12 witness: an overlay away from the origin was drawn on page 2
C12_DrawnOnSecondPage ==
    \E i \in 1 .. Len(finishes) :
        /\ finishes[i].pc = "drawn"
        /\ PositiveDimensions(finishes[i])
        /\ finishes[i].pageIndex = 1
        /\ finishes[i].position = Pos(R(409), R(371))
        /\ finishes[i].signatureDimensions = Dim(R(509), Q(509, 2))


\* C13: a conversion with an overlay, rendered page or native page dimension
\* that is <= 0 fails and draws nothing.
C13_InvalidDimensionsDrawNothing ==
    \A i \in 1 .. Len(finishes) :
        ~PositiveDimensions(finishes[i]) =>
            /\ finishes[i].pc = "load"
            /\ finishes[i].draws = <<>>


\* C15: a mouseup received while Dragging or Resizing returns the mode to
\* Idle, and while the mode is Idle no pointer-move changes the overlay
\* position or size.
C15_PointerUpEndsGesture ==
    [][/\ HandleGlobalUp => Idle'
       /\ Idle => \A pt \in PointerPoints :
                      ~(/\ HandleGlobalMove(pt[1], pt[2])
                        /\ overlayVars' # overlayVars)]_vars

\* C15 witness: a resize that widened the overlay to the page's right edge has
\* ended, and the overlay keeps the size
C15_IdleAfterResize ==
    /\ mounted /\ Idle
    /\ gestures > 0
    /\ sigDimensions.width = R(509)

\* C16: the workspace has one mousemove and one mouseup listener registered
\* on document while it is mounted and dragging or resizing, and none in
\* every other state.
C16_ListenersWhileActive ==
    listeners = IF mounted /\ (isDragging \/ isResizing) THEN 1 ELSE 0

\* C16 witness: two gestures have been started and ended in the mounted
\* workspace, and no listener is left
C16_IdleAfterGestures ==
    /\ mounted /\ Idle
    /\ gestures >= 2
    /\ listeners = 0


\* C17: in a mounted pad, hasSignature is true after a stroke is extended,
\* false after Clear, stays true in every other step (export included) and
\* stays false until a stroke is extended.
C17_HasInkFollowsStrokes ==
    [][padMounted =>
          /\ (Draw /\ isDrawing) => hasSignature'
          /\ ClearSignature => ~hasSignature'
          /\ (hasSignature /\ ~ClearSignature) => hasSignature'
          /\ (~hasSignature /\ ~(Draw /\ isDrawing)) => ~hasSignature']_vars

\* C17 witness: the signature was exported and hasSignature is still true
C17_InkAfterExport ==
    /\ step = "PLACE"
    /\ hasSignature /\ ink

\* C18: onSave, which moves the App from SIGNATURE to PLACE, is only invoked
\* in a state where hasSignature is true.
C18_ExportOnlyWithInk ==
    [][(step = "SIGNATURE" /\ step' = "PLACE") => hasSignature]_vars

\* C18 witness: the workspace was entered, so onSave has been invoked, in
\* the middle of a stroke
C18_ExportedWhileDrawing ==
    /\ mounted
    /\ signatureData
    /\ isDrawing


\* the state that the workspace renders from: its state hooks and its canvas
WorkspaceShown ==
    <<pageVars, isRendering, overlayVars, modeVars, initialized, isProcessing,
      canvas>>

\* C19: when the document fails to load, the failure is surfaced: the
\* workspace does not stay in the state it shows while loading.
C19_LoadFailureSurfaced ==
    [][LoadPdfFail => WorkspaceShown' # WorkspaceShown]_vars


\* C20: a pointer-move received while resizing leaves sigPosition unchanged,
\* and leaves sigDimensions unchanged too when sigPosition.y + newHeight is
\* greater than the canvas height.
C20_ResizeKeepsPosition ==
    [][\A pt \in PointerPoints :
          (isResizing /\ HandleGlobalMove(pt[1], pt[2])) =>
              /\ sigPosition' = sigPosition
              /\ LET e == [clientX |-> R(pt[1]), clientY |-> R(pt[2])]
                 IN  RLt(R(canvas.height),
                         RAdd(sigPosition.y, ResizeCandidate(e).height))
                         => sigDimensions' = sigDimensions]_vars


\* r is v clamped to the interval [lo, hi]
ClampedTo(r, v, lo, hi) ==
    /\ RLe(lo, r) /\ RLe(r, hi)
    /\ (RLe(lo, v) /\ RLe(v, hi)) => r = v
    /\ RLt(v, lo) => r = lo
    /\ RLt(hi, v) => r = hi

\* C21: a pointer-move received while dragging leaves sigDimensions unchanged
\* and sets sigPosition, on each axis, to the pointer position in canvas
\* space minus dragOffset, clamped to [0, canvas size - overlay size]: the
\* overlay ends at the boundary, not outside the canvas.
C21_DragUpdateClamped ==
    [][\A pt \in PointerPoints :
          (isDragging /\ HandleGlobalMove(pt[1], pt[2])) =>
              /\ sigDimensions' = sigDimensions
              /\ ClampedTo(sigPosition'.x,
                           RSub(RSub(R(pt[1]), R(CanvasOrigin.left)),
                                dragOffset.x),
                           R(0),
                           RSub(R(canvas.width), sigDimensions.width))
              /\ ClampedTo(sigPosition'.y,
                           RSub(RSub(R(pt[2]), R(CanvasOrigin.top)),
                                dragOffset.y),
                           R(0),
                           RSub(R(canvas.height), sigDimensions.height))]_vars


\* C22: a page change made when initialized is set leaves sigPosition and
\* sigDimensions unchanged, and so does the completion of the render it
\* started (a render whose effect ran with initialized set): only the canvas
\* changes.
C22_PageChangeKeepsOverlay ==
    [][/\ (initialized /\ (PrevPage \/ NextPage)) => UNCHANGED overlayVars
       /\ \A i \in 1 .. MaxRenders :
              (RenderDone(i) /\ renders[i].initialized) =>
                  UNCHANGED overlayVars]_vars

\* C22 witness: page 2 is shown and the overlay is where it was centered on
\* page 1, to the right of the smaller canvas of page 2
C22_OverlayStaysAfterPageChange ==
    /\ mounted /\ initialized
    /\ renders = <<>>
    /\ currentPage = 2
    /\ canvas = [SizedCanvas(2) EXCEPT !.page = 2]
    /\ sigPosition = Centered(SizedCanvas(1), sigDimensions)


\* C23: once the first page has been rendered and the signature image has
\* loaded, in either order, and before the user touches the overlay,
\* sigPosition.x = canvas.width / 2 - width / 2 and
\* sigPosition.y = canvas.height / 3 - height / 2 for the overlay size
\* derived from the signature image's aspect ratio.
C23_CenteredWithSignatureSize ==
    (/\ mounted /\ initialized /\ img = "loaded"
     /\ gestures = 0 /\ renders = <<>>
     /\ currentPage = 1 /\ canvas.page = 1) =>
        LET width == R(100)
            height == RDiv(RMul(R(100), SignatureImage.height),
                           SignatureImage.width)
        IN  /\ sigPosition.x = RSub(Q(canvas.width, 2), RDiv(width, R(2)))
            /\ sigPosition.y = RSub(Q(canvas.height, 3), RDiv(height, R(2)))


\* C24: the current step has the data its screen needs: step = PLACE implies
\* file and signatureData are set, and step = SUCCESS implies file and
\* signedUrl are set.
C24_StepHasItsData ==
    /\ step = "PLACE" => (file /\ signatureData)
    /\ step = "SUCCESS" => (file /\ signedUrl)


\* C25: the step changes only along UPLOAD -> SIGNATURE -> PLACE -> SUCCESS,
\* Back (PLACE -> SIGNATURE) and reset (SIGNATURE or SUCCESS -> UPLOAD): the
\* App enters SUCCESS only from PLACE, so a commit completion that arrives
\* after Back does not change the step.
C25_SuccessOnlyFromPlace ==
    [][step' # step =>
          /\ step' = "SIGNATURE" => step \in {"UPLOAD", "PLACE"}
          /\ step' = "PLACE" => step = "SIGNATURE"
          /\ step' = "SUCCESS" => step = "PLACE"
          /\ step' = "UPLOAD" => step \in {"SIGNATURE", "SUCCESS"}]_vars


\* the overlay box of a finish lies within the rendered page it was called
\* with
BoxInRenderedPage(f) ==
    /\ RLe(R(0), f.position.x)
    /\ RLe(R(0), f.position.y)
    /\ RLe(RAdd(f.position.x, f.signatureDimensions.width),
           f.pdfPageDimensions.width)
    /\ RLe(RAdd(f.position.y, f.signatureDimensions.height),
           f.pdfPageDimensions.height)

\* C26: when the overlay box lies within the rendered page and all
\* dimensions are positive, the rectangle handed to drawImage lies within
\* the native page: 0 <= docX, 0 <= docY, docX + docWidth <= nativeWidth and
\* docY + docHeight <= nativeHeight.
C26_RectangleInNativePage ==
    \A i \in 1 .. Len(finishes) :
        (/\ finishes[i].pc = "drawn"
         /\ PositiveDimensions(finishes[i])
         /\ BoxInRenderedPage(finishes[i])) =>
            LET doc == finishes[i].options[1]
                native == NativeSize(finishes[i].pageIndex + 1)
            IN  /\ RLe(R(0), doc.x)
                /\ RLe(R(0), doc.y)
                /\ RLe(RAdd(doc.x, doc.width), native.width)
                /\ RLe(RAdd(doc.y, doc.height), native.height)

\* C26 witness: an overlay that touches the right edge of the rendering of
\* page 1 was drawn on page 1
C26_DrawnAtRightEdge ==
    \E i \in 1 .. Len(finishes) :
        /\ finishes[i].pc = "drawn"
        /\ finishes[i].pageIndex = 0
        /\ finishes[i].pdfPageDimensions = Dim(R(918), R(1188))
        /\ finishes[i].position = Pos(R(409), R(371))
        /\ finishes[i].signatureDimensions = Dim(R(509), Q(509, 2))
        /\ BoxInRenderedPage(finishes[i])

==========================================================================
